---------------------------- MODULE Spec2Model ----------------------------
(***************************************************************************)
(* Model of simplified_enhanced_metrics.py: heuristic scoring of recorded  *)
(* agent conversations, their per-domain summary, and the report driver.   *)
(*                                                                         *)
(* Python dicts are functions whose DOMAIN is the set of keys present.     *)
(* Python floats are exact rationals <<numerator, denominator>> in lowest  *)
(* terms with a positive denominator; IEEE rounding is not modelled.       *)
(* A string is a sequence of text fragments; `phrase in content` is        *)
(* membership of the fragment, str.lower() maps each fragment to its       *)
(* lower-case form and len() adds the fragments' character counts.         *)
(***************************************************************************)
EXTENDS Integers, Sequences, FiniteSets, TLC

VARIABLES
    pc,               \* position of the run
    simulation,       \* the simulation record given to calculate_enhanced_metrics
    metrics,          \* <<>> or <<its SimulationMetrics>>
    enhanced_results, \* the metrics list given to generate_summary_insights
    summary,          \* <<>> or <<its DatasetSummary>>
    files,            \* main: domain index -> what open()/json.load() finds
    domain_idx,       \* main: index of the next entry of simulation_files
    all_results,      \* main: domain name -> results of analyze_simulation_file
    output,           \* main: what has been printed, in order
    uncaught          \* main: the fault that escaped main, or None

vars == <<pc, simulation, metrics, enhanced_results, summary, files,
          domain_idx, all_results, output, uncaught>>

None == "None"

\* ---------------------------------------------------------------- bounds
MaxPrefix == 1     \* free-form messages at the head of a mixed conversation
MaxTail == 5       \* copies of one message appended after that head
MaxRepeat == 31    \* messages of a long uniform conversation
MaxResults == 3    \* length of a metrics list given to the summarizer
MaxCopies == 4     \* N in "N identical records"
MaxSims == 2       \* simulations in one analysed file

\* ------------------------------------------------------------ rationals
Abs(x) == IF x < 0 THEN -x ELSE x

RECURSIVE GCD(_, _)
GCD(a, b) == IF b = 0 THEN a ELSE GCD(b, a % b)

Rat(n, d) == LET g == GCD(Abs(n), d) IN <<n \div g, d \div g>>

RAdd(x, y) == Rat(x[1] * y[2] + y[1] * x[2], x[2] * y[2])
RMul(x, y) == Rat(x[1] * y[1], x[2] * y[2])
RDivInt(x, n) == Rat(x[1], x[2] * n)
RLt(x, y) == x[1] * y[2] < y[1] * x[2]
RLe(x, y) == x[1] * y[2] <= y[1] * x[2]
RMin(x, y) == IF RLt(y, x) THEN y ELSE x
RMax(x, y) == IF RLt(x, y) THEN y ELSE x
Zero == Rat(0, 1)
One == Rat(1, 1)
Tenths(n) == Rat(n, 10)
Hundredths(n) == Rat(n, 100)

\* s[lo] + ... + s[hi]; addition of exact values is associative, so the sum
\* is split in halves to keep the evaluation shallow
RECURSIVE RSumRange(_, _, _)
RSumRange(s, lo, hi) ==
    IF lo > hi THEN Zero
    ELSE IF lo = hi THEN s[lo]
    ELSE LET mid == (lo + hi) \div 2 IN
         RAdd(RSumRange(s, lo, mid), RSumRange(s, mid + 1, hi))

RSum(s) == RSumRange(s, 1, Len(s))

\* mutant: the sample (n - 1) denominator
Mean_Sample(s) == RDivInt(RSum(s), IF Len(s) > 1 THEN Len(s) - 1 ELSE 1)

\* np.mean of a non-empty list
Mean(s) == RDivInt(RSum(s), Len(s))

\* ----------------------------------------------------------------- dicts
Get(d, k, default) == IF k \in DOMAIN d THEN d[k] ELSE default

\* -------------------------------------------------------------- strings
\* the fragments in use: "Please", "VERIFY", "first", "check", "ok" and
\* "filler", a run of 51 characters holding no phrase
Lower(f) == CASE f = "Please" -> "please"
              [] f = "VERIFY" -> "verify"
              [] OTHER -> f

FragLen(f) == CASE f = "ok" -> 2
                [] f = "first" -> 5
                [] f = "check" -> 5
                [] f = "filler" -> 51
                [] OTHER -> 6

StrLower(content) == [i \in 1..Len(content) |-> Lower(content[i])]

RECURSIVE StrLen(_)
StrLen(content) ==
    IF content = <<>> THEN 0
    ELSE FragLen(content[1]) + (IF Len(content) > 1 THEN 1 ELSE 0)
         + StrLen(Tail(content))

Contains(content, phrase) == \E i \in 1..Len(content) : content[i] = phrase

AnyIn(phrases, content) == \E p \in phrases : Contains(content, p)

\* --------------------------------------------------- sub-score calculators
polite_phrases == {"please", "let me help", "i understand", "can you"}
procedural_phrases == {"step by step", "first", "next", "verify"}
technical_terms == {"check", "verify", "enable", "disable", "toggle",
                    "settings", "network", "data"}

\* mutant: the procedural tier tested before the polite tier
MessagePoints_ProceduralFirst(message) ==
    LET content == StrLower(Get(message, "content", <<>>)) IN
    IF AnyIn(procedural_phrases, content) THEN 8
    ELSE IF AnyIn(polite_phrases, content) THEN 10
    ELSE IF StrLen(content) > 50 THEN 5
    ELSE 3

\* one pass of the loop body of assess_communication_quality: the points
\* added to quality_score, in tenths (1.0, 0.8, 0.5 or 0.3)
MessagePoints(message) ==
    LET content == StrLower(Get(message, "content", <<>>)) IN
    IF AnyIn(polite_phrases, content) THEN 10
    ELSE IF AnyIn(procedural_phrases, content) THEN 8
    ELSE IF StrLen(content) > 50 THEN 5
    ELSE 3

\* s[lo] + ... + s[hi] for integers
RECURSIVE SumRange(_, _, _)
SumRange(s, lo, hi) ==
    IF lo > hi THEN 0
    ELSE IF lo = hi THEN s[lo]
    ELSE LET mid == (lo + hi) \div 2 IN SumRange(s, lo, mid) + SumRange(s, mid + 1, hi)

\* quality_score after the loop
QualityScore(agent_messages) ==
    Tenths(SumRange([i \in 1..Len(agent_messages) |-> MessagePoints(agent_messages[i])],
                    1, Len(agent_messages)))

assess_communication_quality(agent_messages) ==
    IF agent_messages = <<>> THEN Zero
    ELSE RMin(One, RDivInt(QualityScore(agent_messages), Len(agent_messages)))

HasTechnicalContent(message) ==
    AnyIn(technical_terms, StrLower(Get(message, "content", <<>>)))

HasToolCall(message) ==
    "tool_calls" \in DOMAIN message \/ "function_call" \in DOMAIN message

\* a counting loop over the per-item test results
CountTrue(s) == Cardinality({i \in 1..Len(s) : s[i]})

\* mutant: one increment per indicator key instead of one per message
assess_technical_accuracy_PerKey(messages) ==
    LET HasToolCalls(m) == "tool_calls" \in DOMAIN m
        HasFunctionCall(m) == "function_call" \in DOMAIN m
        technical_content ==
            CountTrue([i \in 1..Len(messages) |-> HasTechnicalContent(messages[i])])
        tool_calls == CountTrue([i \in 1..Len(messages) |-> HasToolCalls(messages[i])])
                      + CountTrue([i \in 1..Len(messages) |-> HasFunctionCall(messages[i])])
        technical_score == RMin(One, RAdd(RMul(Rat(technical_content, 1), Tenths(1)),
                                          RMul(Rat(tool_calls, 1), Tenths(2))))
    IN RMax(Tenths(6), technical_score)

assess_technical_accuracy(messages) ==
    LET technical_content ==
            CountTrue([i \in 1..Len(messages) |-> HasTechnicalContent(messages[i])])
        tool_calls == CountTrue([i \in 1..Len(messages) |-> HasToolCall(messages[i])])
        technical_score == RMin(One, RAdd(RMul(Rat(technical_content, 1), Tenths(1)),
                                          RMul(Rat(tool_calls, 1), Tenths(2))))
    IN RMax(Tenths(6), technical_score)

\* mutant: a reward of exactly 0 taken as a success
assess_efficiency_ZeroSucceeds(messages, reward) ==
    LET message_count == Len(messages) IN
    IF RLe(Zero, reward)
    THEN IF message_count <= 10 THEN One
         ELSE IF message_count <= 20 THEN Tenths(8)
         ELSE IF message_count <= 30 THEN Tenths(6)
         ELSE Tenths(4)
    ELSE IF message_count <= 5 THEN Tenths(3)
         ELSE IF message_count <= 15 THEN Tenths(5)
         ELSE Tenths(2)

assess_efficiency(messages, reward) ==
    LET message_count == Len(messages) IN
    IF RLt(Zero, reward)
    THEN IF message_count <= 10 THEN One
         ELSE IF message_count <= 20 THEN Tenths(8)
         ELSE IF message_count <= 30 THEN Tenths(6)
         ELSE Tenths(4)
    ELSE IF message_count <= 5 THEN Tenths(3)
         ELSE IF message_count <= 15 THEN Tenths(5)
         ELSE Tenths(2)

\* ------------------------------------------------------ failure classifier
TerminatedDueTo(termination_reason) ==
    CASE termination_reason = "unknown" -> "Terminated due to: unknown"
      [] termination_reason = "agent_error" -> "Terminated due to: agent_error"
      [] OTHER -> "Terminated due to: ?"

\* mutant: the extended_failure threshold taken inclusive
FailureTypeOf_Inclusive30(termination_reason, message_count) ==
    IF termination_reason = "user_stop"
    THEN IF message_count < 5 THEN "premature_termination"
         ELSE IF message_count >= 30 THEN "extended_failure"
         ELSE "execution_timing"
    ELSE IF termination_reason = "max_turns" THEN "timeout_failure"
    ELSE "unknown_failure"

\* the branch of lines 161-176 that sets failure_type
FailureTypeOf(termination_reason, message_count) ==
    IF termination_reason = "user_stop"
    THEN IF message_count < 5 THEN "premature_termination"
         ELSE IF message_count > 30 THEN "extended_failure"
         ELSE "execution_timing"
    ELSE IF termination_reason = "max_turns" THEN "timeout_failure"
    ELSE "unknown_failure"

\* the same branch, for failure_reason
FailureReasonOf(termination_reason, message_count) ==
    IF termination_reason = "user_stop"
    THEN IF message_count < 5 THEN "Conversation ended too early"
         ELSE IF message_count > 30 THEN "Long conversation without resolution"
         ELSE "User stopped despite ongoing conversation"
    ELSE IF termination_reason = "max_turns"
         THEN "Reached maximum conversation length"
    ELSE TerminatedDueTo(termination_reason)

analyze_failure_pattern(sim, messages, reward) ==
    IF RLt(Zero, reward)
    THEN [failure_type |-> None, failure_reason |-> "Success"]
    ELSE
      LET termination_reason == Get(sim, "termination_reason", "unknown")
          message_count == Len(messages)
          duration == Get(sim, "duration", 0)
      IN [failure_type |-> FailureTypeOf(termination_reason, message_count),
          failure_reason |-> FailureReasonOf(termination_reason, message_count),
          termination_reason |-> termination_reason,
          message_count |-> message_count,
          duration |-> duration]

\* ------------------------------------------------ per-simulation aggregator
IsAgent(message) == Get(message, "role", None) = "assistant"

AgentMessages(messages) == SelectSeq(messages, IsAgent)

\* mutant: the execution weight mistyped as 0.45
OverallScore_Weight45(execution_score, communication_score, technical_score, efficiency_score) ==
    RAdd(RAdd(RAdd(RMul(execution_score, Hundredths(45)),
                   RMul(communication_score, Hundredths(25))),
              RMul(technical_score, Hundredths(25))),
         RMul(efficiency_score, Hundredths(15)))

\* the composite of lines 57-62
OverallScore(execution_score, communication_score, technical_score, efficiency_score) ==
    RAdd(RAdd(RAdd(RMul(execution_score, Hundredths(35)),
                   RMul(communication_score, Hundredths(25))),
              RMul(technical_score, Hundredths(25))),
         RMul(efficiency_score, Hundredths(15)))

calculate_enhanced_metrics(messages, reward, sim) ==
    LET execution_score == reward
        agent_messages == AgentMessages(messages)
        communication_score == assess_communication_quality(agent_messages)
        technical_score == assess_technical_accuracy(messages)
        efficiency_score == assess_efficiency(messages, reward)
        overall_score == OverallScore(execution_score, communication_score,
                                      technical_score, efficiency_score)
        failure_analysis == analyze_failure_pattern(sim, messages, reward)
    IN [execution_score |-> execution_score,
        communication_score |-> communication_score,
        technical_score |-> technical_score,
        efficiency_score |-> efficiency_score,
        overall_score |-> overall_score,
        failure_analysis |-> failure_analysis,
        message_count |-> Len(messages),
        agent_message_count |-> Len(agent_messages)]

\* ------------------------------------------------------- dataset summarizer
EmptyDict == << >>

\* mutant: every failure_type counted, None included
Truthy_Always(x) == TRUE

Truthy(x) == x # None /\ x # ""

Increment(d, k) ==
    [x \in DOMAIN d \cup {k} |-> IF x = k THEN Get(d, k, 0) + 1 ELSE d[x]]

RECURSIVE FailureTypes(_, _)
FailureTypes(results, failure_types) ==
    IF results = <<>> THEN failure_types
    ELSE LET failure_type == results[1].failure_analysis.failure_type IN
         FailureTypes(Tail(results),
                      IF Truthy(failure_type)
                      THEN Increment(failure_types, failure_type)
                      ELSE failure_types)

IsExcellent(s) == RLe(Tenths(8), s)
\* mutant: the lower boundary of the good tier taken exclusive
IsGood_Exclusive(s) == RLt(Tenths(6), s) /\ RLt(s, Tenths(8))

IsGood(s) == RLe(Tenths(6), s) /\ RLt(s, Tenths(8))
IsAcceptable(s) == RLe(Tenths(4), s) /\ RLt(s, Tenths(6))
IsPoor(s) == RLt(s, Tenths(4))
IsSuccess(s) == RLt(Zero, s)

Column(results, field) == [i \in 1..Len(results) |-> results[i][field]]

MinOf(s) == CHOOSE x \in {s[i] : i \in 1..Len(s)} : \A j \in 1..Len(s) : x <= s[j]
MaxOf(s) == CHOOSE x \in {s[i] : i \in 1..Len(s)} : \A j \in 1..Len(s) : x >= s[j]

generate_summary_insights(results) ==
    IF results = <<>> THEN EmptyDict
    ELSE
      LET execution_scores == Column(results, "execution_score")
          communication_scores == Column(results, "communication_score")
          technical_scores == Column(results, "technical_score")
          efficiency_scores == Column(results, "efficiency_score")
          overall_scores == Column(results, "overall_score")
          message_counts == Column(results, "message_count")
          IsExcellentAt(i) == IsExcellent(overall_scores[i])
          IsGoodAt(i) == IsGood(overall_scores[i])
          IsAcceptableAt(i) == IsAcceptable(overall_scores[i])
          IsPoorAt(i) == IsPoor(overall_scores[i])
          IsSuccessAt(i) == IsSuccess(execution_scores[i])
          Count(TestAt(_)) == CountTrue([i \in 1..Len(results) |-> TestAt(i)])
      IN [total_simulations |-> Len(results),
          average_execution_score |-> Mean(execution_scores),
          average_communication_score |-> Mean(communication_scores),
          average_technical_score |-> Mean(technical_scores),
          average_efficiency_score |-> Mean(efficiency_scores),
          average_overall_score |-> Mean(overall_scores),
          performance_distribution |->
              [excellent |-> Count(IsExcellentAt),
               good |-> Count(IsGoodAt),
               acceptable |-> Count(IsAcceptableAt),
               poor |-> Count(IsPoorAt)],
          failure_type_distribution |-> FailureTypes(results, EmptyDict),
          conversation_stats |->
              [average_message_count |->
                   Mean([i \in 1..Len(results) |-> Rat(message_counts[i], 1)]),
               min_message_count |-> MinOf(message_counts),
               max_message_count |-> MaxOf(message_counts)],
          success_rate |-> Rat(Count(IsSuccessAt), Len(execution_scores))]

\* ------------------------------------------------------------ file analysis
\* A file is [exists, valid_json, data]: open() raises when it does not exist,
\* json.load() when it is not JSON; data is the parsed document otherwise.
HasReward(sim) ==
    "reward_info" \in DOMAIN sim /\ "reward" \in DOMAIN sim["reward_info"]

LoadFault(file) ==
    IF ~file.exists THEN "FileNotFoundError"
    ELSE IF ~file.valid_json THEN "JSONDecodeError"
    ELSE IF "simulations" \notin DOMAIN file.data THEN "KeyError"
    ELSE IF \E i \in 1..Len(file.data["simulations"]) :
                ~HasReward(file.data["simulations"][i]) THEN "KeyError"
    ELSE None

\* enhanced_results after the first n simulations of the loop
RECURSIVE EnhancedResultsTo(_, _)
EnhancedResultsTo(simulations, n) ==
    IF n = 0 THEN <<>>
    ELSE LET sim == simulations[n] IN
         Append(EnhancedResultsTo(simulations, n - 1),
                calculate_enhanced_metrics(Get(sim, "messages", <<>>),
                                           sim["reward_info"]["reward"], sim))

EnhancedResults(simulations) == EnhancedResultsTo(simulations, Len(simulations))

\* [raised |-> the exception or None, results |-> the returned dict]
analyze_simulation_file(file) ==
    LET fault == LoadFault(file) IN
    IF fault # None THEN [raised |-> fault, results |-> EmptyDict]
    ELSE LET simulations == file.data["simulations"]
             results == EnhancedResults(simulations)
         IN [raised |-> None,
             results |-> [domain_analysis |-> results,
                          summary_insights |-> generate_summary_insights(results),
                          total_simulations |-> Len(simulations)]]

\* ------------------------------------------------------------------ inputs
SeqsUpTo(S, n) == UNION {[1..k -> S] : k \in 0..n}

Repeat(x, k) == [i \in 1..k |-> x]

Message(role, content) == ("role" :> role) @@ ("content" :> content)
WithToolCalls(message) == message @@ ("tool_calls" :> <<"call">>)
WithFunctionCall(message) == message @@ ("function_call" :> <<"call">>)

MessagePool ==
    { Message("assistant", <<"Please", "VERIFY">>),
      WithToolCalls(Message("assistant", <<"first", "filler">>)),
      WithFunctionCall(WithToolCalls(Message("assistant", <<"filler">>))),
      WithFunctionCall("role" :> "assistant"),
      Message("user", <<"check">>),
      WithToolCalls(Message("user", <<"Please", "ok">>)) }

RepeatedPool ==
    { WithFunctionCall(WithToolCalls(Message("assistant", <<"filler">>))),
      WithToolCalls(Message("user", <<"check">>)) }

\* mixed conversations: a free-form head and a short uniform tail
MixedConversations ==
    { head \o Repeat(m, k) : head \in SeqsUpTo(MessagePool, MaxPrefix),
                              m \in RepeatedPool, k \in 0..MaxTail }

\* long conversations: one message repeated, past every count threshold
LongConversations == { Repeat(m, k) : m \in RepeatedPool, k \in 0..MaxRepeat }

Conversations == MixedConversations \cup LongConversations

Rewards == {Rat(-1, 1), Zero, Rat(1, 2), One}

TerminationReasons == {"user_stop", "max_turns", "agent_error"}

\* the optional keys of a simulation record
SimulationExtras ==
    { t @@ d : t \in {EmptyDict} \cup {"termination_reason" :> r : r \in TerminationReasons},
               d \in {EmptyDict, "duration" :> 12} }

Simulation(reward, messages, extras) ==
    ("reward_info" :> ("reward" :> reward)) @@ ("messages" :> messages) @@ extras

SimulationInputs ==
    { Simulation(r, c, e) : r \in Rewards, c \in Conversations, e \in SimulationExtras }

Idle == /\ files = <<>>
        /\ domain_idx = 0
        /\ all_results = EmptyDict
        /\ output = <<>>
        /\ uncaught = None

\* ---------------------------------------- one simulation through the aggregator
InitSim ==
    /\ pc = "simulation"
    /\ simulation \in SimulationInputs
    /\ metrics = <<>>
    /\ enhanced_results = <<>>
    /\ summary = <<>>
    /\ Idle

CalculateEnhancedMetrics ==
    /\ pc = "simulation"
    /\ metrics' = <<calculate_enhanced_metrics(Get(simulation, "messages", <<>>),
                                               simulation["reward_info"]["reward"],
                                               simulation)>>
    /\ pc' = "scored"
    /\ UNCHANGED <<simulation, enhanced_results, summary, files, domain_idx,
                   all_results, output, uncaught>>

NextSim == CalculateEnhancedMetrics

SpecSim == InitSim /\ [][NextSim]_vars

\* ------------------------------------- a metrics list through the summarizer
\* SimulationMetrics records as a caller may build them, field by field
MetricsRecord(execution, communication, technical, efficiency, overall, ft, n) ==
    [execution_score |-> execution,
     communication_score |-> communication,
     technical_score |-> technical,
     efficiency_score |-> efficiency,
     overall_score |-> overall,
     failure_analysis |-> [failure_type |-> ft, failure_reason |-> "Success"],
     message_count |-> n,
     agent_message_count |-> 0]

\* overall scores on, next to and beyond the tier boundaries
ScoreSamples ==
    {Rat(-1, 2), Hundredths(39), Tenths(4), Tenths(6), Hundredths(79),
     Tenths(8), Rat(3, 2)}

RecordPool ==
    { MetricsRecord(e, sub[1], sub[2], sub[3], o, ft, n) :
        e \in {Rat(-1, 1), Zero, Rat(1, 3)},
        sub \in {<<Zero, Tenths(6), Tenths(3)>>, <<Rat(1, 3), Tenths(7), One>>},
        o \in ScoreSamples,
        ft \in {None, "timeout_failure"},
        n \in {0, 7} }

TierPool ==
    { MetricsRecord(One, One, One, One, o, None, 7) : o \in ScoreSamples }

MetricsLists ==
    { Repeat(r, n) : r \in RecordPool, n \in 1..MaxCopies }
    \cup (SeqsUpTo(TierPool, MaxResults) \ {<<>>})

InitSummary ==
    /\ pc = "metrics"
    /\ enhanced_results \in MetricsLists
    /\ summary = <<>>
    /\ simulation = EmptyDict
    /\ metrics = <<>>
    /\ Idle

GenerateSummaryInsights ==
    /\ pc = "metrics"
    /\ summary' = <<generate_summary_insights(enhanced_results)>>
    /\ pc' = "summarized"
    /\ UNCHANGED <<simulation, metrics, enhanced_results, files, domain_idx,
                   all_results, output, uncaught>>

NextSummary == GenerateSummaryInsights

SpecSummary == InitSummary /\ [][NextSummary]_vars

\* ------------------------------------------------- one file through analysis
File(data) == [exists |-> TRUE, valid_json |-> TRUE, data |-> data]
MissingFile == [exists |-> FALSE, valid_json |-> FALSE, data |-> EmptyDict]
MalformedFile == [exists |-> TRUE, valid_json |-> FALSE, data |-> EmptyDict]

UserMessage == Message("user", <<"check">>)
AgentMessage == WithToolCalls(Message("assistant", <<"Please", "VERIFY">>))

\* simulations of a recorded file: each reward and termination, an empty and
\* a six-message conversation, and a record without reward_info
SimulationPool ==
    { Simulation(r, c, e) :
        r \in {Rat(-1, 1), Zero, One},
        c \in {<<>>, <<UserMessage, AgentMessage, UserMessage, AgentMessage,
                        UserMessage, AgentMessage>>},
        e \in {EmptyDict, "termination_reason" :> "user_stop",
               "termination_reason" :> "max_turns"} }
    \cup {"messages" :> <<UserMessage>>}

FileInputs ==
    {MissingFile, MalformedFile, File("results" :> <<>>)}
    \cup { File("simulations" :> sims) : sims \in SeqsUpTo(SimulationPool, MaxSims) }

InitFile ==
    /\ pc = "file"
    /\ files \in {<<f>> : f \in FileInputs}
    /\ simulation = EmptyDict
    /\ metrics = <<>>
    /\ enhanced_results = <<>>
    /\ summary = <<>>
    /\ domain_idx = 0
    /\ all_results = EmptyDict
    /\ output = <<>>
    /\ uncaught = None

AnalyzeSimulationFile ==
    /\ pc = "file"
    /\ LET r == analyze_simulation_file(files[1]) IN
       IF r.raised # None
       THEN /\ pc' = "raised"
            /\ uncaught' = r.raised
            /\ UNCHANGED <<enhanced_results, summary>>
       ELSE /\ pc' = "analyzed"
            /\ enhanced_results' = r.results["domain_analysis"]
            /\ summary' = <<r.results["summary_insights"]>>
            /\ UNCHANGED uncaught
    /\ UNCHANGED <<simulation, metrics, files, domain_idx, all_results, output>>

NextFile == AnalyzeSimulationFile

SpecFile == InitFile /\ [][NextFile]_vars

\* ------------------------------------------------------------ report driver
DomainNames == <<"Retail", "Airline", "Telecom">>

Line(kind, domain, text) == [kind |-> kind, domain |-> domain, text |-> text]

Keys(results) == SelectSeq(DomainNames, LAMBDA d : d \in DOMAIN results)

\* what each of the three files may hold
DomainFiles ==
    { MissingFile,
      MalformedFile,
      File("results" :> <<>>),
      File("simulations" :> <<>>),
      File("simulations" :> <<"messages" :> <<UserMessage>>>>),
      File("simulations" :> <<Simulation(One, <<UserMessage, AgentMessage>>, EmptyDict)>>),
      File("simulations" :>
             <<Simulation(Zero, <<UserMessage>>, "termination_reason" :> "max_turns")>>),
      File("simulations" :>
             <<Simulation(One, <<UserMessage, AgentMessage>>, EmptyDict),
               Simulation(Rat(-1, 1), <<>>, "termination_reason" :> "user_stop")>>) }

Init ==
    /\ pc = "domains"
    /\ files \in [1..Len(DomainNames) -> DomainFiles]
    /\ domain_idx = 1
    /\ all_results = EmptyDict
    /\ output = <<>>
    /\ uncaught = None
    /\ simulation = EmptyDict
    /\ metrics = <<>>
    /\ enhanced_results = <<>>
    /\ summary = <<>>

\* one pass of the loop over simulation_files: the try block and its handler
AnalyzeDomain ==
    /\ pc = "domains"
    /\ domain_idx <= Len(DomainNames)
    /\ LET domain == DomainNames[domain_idx]
           r == analyze_simulation_file(files[domain_idx])
       IN IF r.raised # None
          THEN /\ output' = Append(output, Line("error", domain, r.raised))
               /\ UNCHANGED all_results
          ELSE /\ all_results' = (domain :> r.results) @@ all_results
               /\ IF "total_simulations" \in DOMAIN r.results["summary_insights"]
                  THEN output' = Append(output, Line("section", domain, ""))
                  ELSE output' = Append(output, Line("error", domain, "KeyError"))
    /\ domain_idx' = domain_idx + 1
    /\ UNCHANGED <<pc, simulation, metrics, enhanced_results, summary, files, uncaught>>

SummaryField(domain, field) == all_results[domain]["summary_insights"][field]

\* scores.sort(key=..., reverse=True) is stable: element 0 is the first domain
\* with the highest score, element -1 the last domain with the lowest
First(domains, field) ==
    LET i == CHOOSE i \in 1..Len(domains) :
               /\ \A j \in 1..Len(domains) :
                     RLe(SummaryField(domains[j], field), SummaryField(domains[i], field))
               /\ \A j \in 1..(i - 1) :
                     RLt(SummaryField(domains[j], field), SummaryField(domains[i], field))
    IN domains[i]

Last(domains, field) ==
    LET i == CHOOSE i \in 1..Len(domains) :
               /\ \A j \in 1..Len(domains) :
                     RLe(SummaryField(domains[i], field), SummaryField(domains[j], field))
               /\ \A j \in (i + 1)..Len(domains) :
                     RLt(SummaryField(domains[i], field), SummaryField(domains[j], field))
    IN domains[i]

\* the domains whose score the "Overall Scores" loop prints before it ends
Printable(domains) ==
    LET Readable(i) ==
          "average_overall_score" \in DOMAIN all_results[domains[i]]["summary_insights"]
        stop == IF \A i \in 1..Len(domains) : Readable(i) THEN Len(domains) + 1
                ELSE CHOOSE i \in 1..Len(domains) :
                       ~Readable(i) /\ \A j \in 1..(i - 1) : Readable(j)
    IN SubSeq(domains, 1, stop - 1)

CrossDomainComparison ==
    /\ pc = "domains"
    /\ domain_idx > Len(DomainNames)
    /\ LET domains == Keys(all_results)
           printed == Printable(domains)
           header == <<Line("comparison", "", "")>>
           scores == [i \in 1..Len(printed) |-> Line("overall", printed[i], "")]
       IN IF Cardinality(DOMAIN all_results) < 2
          THEN /\ pc' = "done"
               /\ output' = output \o header
               /\ UNCHANGED uncaught
          ELSE IF Len(printed) < Len(domains)
          THEN /\ pc' = "crashed"
               /\ uncaught' = "KeyError"
               /\ output' = output \o header \o scores
          ELSE /\ pc' = "done"
               /\ output' = output \o header \o scores \o
                     << Line("best", First(domains, "average_overall_score"), ""),
                        Line("worst", Last(domains, "average_overall_score"), ""),
                        Line("most efficient", First(domains, "average_efficiency_score"), ""),
                        Line("least efficient", Last(domains, "average_efficiency_score"), "") >>
               /\ UNCHANGED uncaught
    /\ UNCHANGED <<simulation, metrics, enhanced_results, summary, files,
                   domain_idx, all_results>>

Next == AnalyzeDomain \/ CrossDomainComparison

Spec == Init /\ [][Next]_vars

\* ======================================================================
\* Properties of one scored simulation (checked under SpecSim)
\* ======================================================================
Scored == pc = "scored"
TheMetrics == metrics[1]
TheMessages == Get(simulation, "messages", <<>>)
TheReward == simulation["reward_info"]["reward"]
Positive(x) == x[1] > 0
ContentOf(m) == IF "content" \in DOMAIN m THEN m["content"] ELSE <<>>
Mentions(m, phrases) ==
    \E i \in 1..Len(ContentOf(m)) : Lower(ContentOf(m)[i]) \in phrases

\* C3: analyze_failure_pattern is the stated decision tree over (reward,
\* termination_reason, message_count): failure_type is null with reason
\* "Success" exactly when reward > 0; otherwise user_stop gives
\* premature_termination below 5 messages, extended_failure above 30 and
\* execution_timing from 5 to 30; max_turns gives timeout_failure; anything
\* else, or no termination_reason, gives unknown_failure; and every failure
\* result carries the input's termination_reason, message_count and duration
\* (defaults "unknown" and 0).
C3_FailureDecisionTree ==
    Scored =>
      LET fa == TheMetrics.failure_analysis
          n == Len(TheMessages)
          has_reason == "termination_reason" \in DOMAIN simulation
          reason == IF has_reason THEN simulation["termination_reason"] ELSE "unknown"
      IN /\ (fa.failure_type = None) <=> Positive(TheReward)
         /\ Positive(TheReward) => fa.failure_reason = "Success"
         /\ ~Positive(TheReward) =>
              /\ reason = "user_stop" /\ n < 5 => fa.failure_type = "premature_termination"
              /\ reason = "user_stop" /\ n > 30 => fa.failure_type = "extended_failure"
              /\ reason = "user_stop" /\ n >= 5 /\ n <= 30 =>
                    fa.failure_type = "execution_timing"
              /\ reason = "max_turns" => fa.failure_type = "timeout_failure"
              /\ reason \notin {"user_stop", "max_turns"} =>
                    fa.failure_type = "unknown_failure"
              /\ fa.termination_reason = reason
              /\ fa.message_count = n
              /\ fa.duration = (IF "duration" \in DOMAIN simulation
                                THEN simulation["duration"] ELSE 0)

\* a failed user_stop conversation of exactly 30 messages, classified
C3_Witness ==
    /\ Scored
    /\ ~Positive(TheReward)
    /\ Len(TheMessages) = 30
    /\ "termination_reason" \in DOMAIN simulation
    /\ simulation["termination_reason"] = "user_stop"
    /\ TheMetrics.failure_analysis.failure_type = "execution_timing"

\* C5: assess_efficiency is the stated step function of the message count and
\* the sign of the reward (a reward of exactly 0 is a failure), so its result
\* is one of the seven constants and an empty conversation with reward 0
\* scores 0.3.
C5_EfficiencyTable ==
    Scored =>
      LET n == Len(TheMessages)
          e == TheMetrics.efficiency_score
      IN /\ Positive(TheReward) /\ n <= 10 => e = One
         /\ Positive(TheReward) /\ 11 <= n /\ n <= 20 => e = Tenths(8)
         /\ Positive(TheReward) /\ 21 <= n /\ n <= 30 => e = Tenths(6)
         /\ Positive(TheReward) /\ n > 30 => e = Tenths(4)
         /\ ~Positive(TheReward) /\ n <= 5 => e = Tenths(3)
         /\ ~Positive(TheReward) /\ 6 <= n /\ n <= 15 => e = Tenths(5)
         /\ ~Positive(TheReward) /\ n > 15 => e = Tenths(2)
         /\ e \in {One, Tenths(8), Tenths(6), Tenths(4), Tenths(3), Tenths(5), Tenths(2)}

\* the empty conversation with reward 0, scored 0.3
C5_Witness ==
    /\ Scored
    /\ TheMessages = <<>>
    /\ TheReward = Zero
    /\ TheMetrics.efficiency_score = Tenths(3)

\* C6: assess_technical_accuracy returns max(0.6, min(1.0, 0.1*T + 0.2*C)), T
\* the number of messages mentioning a technical term and C the number of
\* messages carrying a tool_calls or function_call key, each message counted
\* at most once in T and in C; the result lies in [0.6, 1.0] and is 0.6 for
\* an empty conversation.
C6_TechnicalScore ==
    Scored =>
      LET IsTechnical(m) == Mentions(m, technical_terms)
          CarriesCall(m) == DOMAIN m \cap {"tool_calls", "function_call"} # {}
          T == Cardinality({i \in 1..Len(TheMessages) : IsTechnical(TheMessages[i])})
          C == Cardinality({i \in 1..Len(TheMessages) : CarriesCall(TheMessages[i])})
          raw == Rat(T + 2 * C, 10)
          t == TheMetrics.technical_score
      IN /\ t = (IF RLt(raw, Tenths(6)) THEN Tenths(6)
                 ELSE IF RLt(One, raw) THEN One ELSE raw)
         /\ RLe(Tenths(6), t) /\ RLe(t, One)
         /\ TheMessages = <<>> => t = Tenths(6)

\* a conversation holding a message with both indicator keys, scored strictly
\* between the floor and the cap
C6_Witness ==
    /\ Scored
    /\ \E i \in 1..Len(TheMessages) :
          {"tool_calls", "function_call"} \subseteq DOMAIN TheMessages[i]
    /\ RLt(Tenths(6), TheMetrics.technical_score)
    /\ RLt(TheMetrics.technical_score, One)

C8_OverallScore ==
    Scored =>
      LET m == TheMetrics
          agent == SelectSeq(TheMessages, LAMBDA x : x["role"] = "assistant")
          weighted == RAdd(RAdd(RMul(Rat(35, 100), TheReward),
                                RMul(Rat(25, 100), assess_communication_quality(agent))),
                           RAdd(RMul(Rat(25, 100), assess_technical_accuracy(TheMessages)),
                                RMul(Rat(15, 100), assess_efficiency(TheMessages, TheReward))))
      IN /\ m.execution_score = TheReward
         /\ m.communication_score = assess_communication_quality(agent)
         /\ m.technical_score = assess_technical_accuracy(TheMessages)
         /\ m.efficiency_score = assess_efficiency(TheMessages, TheReward)
         /\ m.overall_score = weighted
         /\ RLe(Zero, TheReward) /\ RLe(TheReward, One) =>
               RLe(Zero, m.overall_score) /\ RLe(m.overall_score, One)

\* a conversation with user and assistant messages whose four scores are all
\* 1, so that the overall score reaches the top of the range
C8_Witness ==
    /\ Scored
    /\ TheReward = One
    /\ TheMetrics.agent_message_count < TheMetrics.message_count
    /\ TheMetrics.agent_message_count > 0
    /\ TheMetrics.overall_score = One

\* ======================================================================
\* Properties of a summarized metrics list (checked under SpecSummary)
\* ======================================================================
Summarized == pc = "summarized"
TheSummary == summary[1]
Overall(i) == enhanced_results[i].overall_score
AtLeast(x, n, d) == x[1] * d >= n * x[2]
InExcellent(i) == AtLeast(Overall(i), 8, 10)
InGood(i) == AtLeast(Overall(i), 6, 10) /\ ~AtLeast(Overall(i), 8, 10)
InAcceptable(i) == AtLeast(Overall(i), 4, 10) /\ ~AtLeast(Overall(i), 6, 10)
InPoor(i) == ~AtLeast(Overall(i), 4, 10)
Records == 1..Len(enhanced_results)

\* C4: on a non-empty metrics list every overall_score lies in exactly one of
\* the tiers excellent (>= 0.8), good (>= 0.6, < 0.8), acceptable (>= 0.4,
\* < 0.6) and poor (< 0.4), negative scores and scores above 1 included, the
\* four counts are the sizes of those tiers, and they add up to
\* total_simulations; a score of exactly 0.8, 0.6 or 0.4 is counted in the
\* upper tier.
C4_TiersPartition ==
    Summarized /\ enhanced_results # <<>> =>
      LET pd == TheSummary.performance_distribution IN
      /\ pd.excellent = Cardinality({i \in Records : InExcellent(i)})
      /\ pd.good = Cardinality({i \in Records : InGood(i)})
      /\ pd.acceptable = Cardinality({i \in Records : InAcceptable(i)})
      /\ pd.poor = Cardinality({i \in Records : InPoor(i)})
      /\ pd.excellent + pd.good + pd.acceptable + pd.poor = TheSummary.total_simulations
      /\ TheSummary.total_simulations = Len(enhanced_results)

\* a summarized list holding a score of exactly 0.6, a negative score and a
\* score above 1
C4_Witness ==
    /\ Summarized
    /\ \E i \in Records : Overall(i) = Tenths(6)
    /\ \E i \in Records : Overall(i)[1] < 0
    /\ \E i \in Records : RLt(One, Overall(i))
    /\ TheSummary.performance_distribution.good = 1

Analyzed == pc = "analyzed"

RECURSIVE SumOfCounts(_, _)
SumOfCounts(d, keys) ==
    IF keys = {} THEN 0
    ELSE LET k == CHOOSE k \in keys : TRUE IN d[k] + SumOfCounts(d, keys \ {k})

\* C10: in the summary of a non-empty list produced by
\* calculate_enhanced_metrics every record is either a success or a counted
\* failure: the counts of failure_type_distribution add up to the number of
\* records with execution_score <= 0, success_rate is the number of records
\* with execution_score > 0 over total_simulations, and the two numbers add
\* up to total_simulations.
C10_SuccessesAndFailures ==
    Analyzed /\ enhanced_results # <<>> =>
      LET hist == TheSummary.failure_type_distribution
          counted == SumOfCounts(hist, DOMAIN hist)
          failures == Cardinality({i \in Records : enhanced_results[i].execution_score[1] <= 0})
          successes == Cardinality({i \in Records : enhanced_results[i].execution_score[1] > 0})
          total == TheSummary.total_simulations
      IN /\ counted = failures
         /\ TheSummary.success_rate[1] * total = successes * TheSummary.success_rate[2]
         /\ counted + successes = total
         /\ total = Len(files[1].data["simulations"])
         /\ None \notin DOMAIN hist

\* a file with a success and a failure with reward exactly 0
C10_Witness ==
    /\ Analyzed
    /\ \E i \in Records : enhanced_results[i].execution_score = <<1, 1>>
    /\ \E i \in Records : enhanced_results[i].execution_score = <<0, 1>>
    /\ DOMAIN TheSummary.failure_type_distribution # {}

\* ======================================================================
\* Properties of the report driver (checked under Spec)
\* ======================================================================
LinesOf(kind) == {i \in 1..Len(output) : output[i].kind = kind}
Faulted == {output[i].domain : i \in LinesOf("error")}
Reported == {output[i].domain : i \in LinesOf("section")}
Compared == {output[i].domain : i \in LinesOf("overall")}
LoopDone == domain_idx > Len(DomainNames)

\* C1: a domain whose try block raised (loading, parsing, a missing key,
\* summarizing or printing its section) has no entry in all_results when the
\* cross-domain comparison begins and is not listed by the comparison,
\* whatever the outcomes of the three domains, an empty simulations list
\* included.
C1_FaultedDomainsExcluded ==
    LoopDone => \A d \in Faulted : d \notin DOMAIN all_results /\ d \notin Compared

\* C2: main visits the three domains in list order whatever each one's
\* outcome, then runs the cross-domain comparison and finishes with no fault
\* escaping; the comparison reads summary fields only of domains whose
\* analysis succeeded.
C2_ComparisonCompletes ==
    /\ \A i \in 1..Len(DomainNames) :
          i < domain_idx => /\ output[i].domain = DomainNames[i]
                            /\ output[i].kind \in {"section", "error"}
    /\ Compared \subseteq Reported
    /\ uncaught = None
    /\ pc # "crashed"

=============================================================================
